---- MODULE Spec2Model ----
(***************************************************************************)
(* Calibration campaign of calibration_hybrid: the budgeted differential-  *)
(* evolution optimizer (dev/optimizer/scipy_de_optimizer.py), the          *)
(* objective function it calls (dev/core/objective_function.py), the       *)
(* evaluation log (dev/core/history_tracker.py) and the command-line       *)
(* driver (dev/run_optimization.py).                                       *)
(*                                                                         *)
(* The search library (scipy.optimize.differential_evolution) is modelled  *)
(* by what it does with the callables it is given: it evaluates the        *)
(* initial population, then one trial population per generation, calls the *)
(* callback after each generation, and stops on the callback's request, on *)
(* convergence, or after maxiter generations.  The objective value of an   *)
(* evaluation and the convergence test are nondeterministic.               *)
(*                                                                         *)
(* Components are also studied on their own, each under its own            *)
(* specification: the evaluation log (SpecTracker) with its sessions; the  *)
(* simulation gateway (dev/core/unity_simulator.py, SpecGateway) with the  *)
(* result files, the external simulator writing them concurrently, the     *)
(* launched process and the polling clock, and with a running thread and   *)
(* an advancing clock (SpecGatewayLive); the parameter export and clamp    *)
(* (dev/export_to_unity.py, dev/core/parameter_utils.py, SpecParameters);  *)
(* the ObjectiveFunction with the scoring of result data                   *)
(* (dev/evaluate_objective.py, SpecObjective).  SpecReuse runs optimize()  *)
(* more than once on the same objects.                                     *)
(***************************************************************************)
EXTENDS Integers, Sequences, FiniteSets, TLC

\* ---------------------------------------------------------------- bounds
MaxPopsize == 2
MaxParams == 2
MaxGenerations == 2
MaxEvals == 5
MaxPrior == 2
MaxRows == 3
MaxSessions == 2
MaxCalls == 2
MaxTimeout == 1
MaxSize == 2
MaxNames == 2

\* ------------------------------------------------------ program constants
ScipyMaxiterFactor == 10
\* A library configured with two workers.
TwoWorkers == 1 + 1
\* The penalty the wrapper returns over budget.  The code's 1e10 does not fit
\* a 32-bit integer; 10^9 stands for it, above every objective value alike.
Sentinel == 1000000000
workers == 1
MaxSeed == 2147483647
stability_checks == 2

None == 0 - 1
Inf == Sentinel + 1

ObjValues == {1, 2}
SeedArgs == {None, 42}
RandSeeds == {0, MaxSeed}
LongEvals == {12}

\* A selection that keeps the value returned last.
KeepLatest(a, b) == b

Min(a, b) == IF a <= b THEN a ELSE b

\* Keyword arguments the OptimizerResult dataclass accepts.
OptimizerResultFields ==
    {"success", "best_params", "best_objective", "n_evaluations",
     "message", "algorithm_name"}

\* Exceptions an evaluation can raise: simulator timeout, simulator crash or
\* invalid result, unreadable or incomplete result data.
EvalErrors == {"TimeoutError", "RuntimeError", "DataError"}

VARIABLES
    scenario,            \* "api": components built directly; "main_fresh",
                         \* "main_resume": run_optimization.main()
    popsize, n_params, generations, max_evaluations, seed_arg,
    checkpoint,          \* content of checkpoint_latest.pkl, <<>> when absent
    confirmed,           \* the operator answered "y" to main()'s prompts
    pc,                  \* "start","constructed","running","search_done",
                         \* "raising","returned","exited"
    error,               \* exception in flight or delivered, "none" otherwise
    seed, maxiter,       \* ScipyDEOptimizer fields
    opt_eval_count,      \* ScipyDEOptimizer.eval_count
    eval_counter, current_generation, termination_flag,   \* optimize() locals
    wrapper_ret,         \* value the last objective_wrapper call returned
    de,                  \* state of the differential_evolution call
    obj_eval_count, obj_generation, evaluations,          \* ObjectiveFunction
    history,             \* OptimizationHistory.history (in memory)
    csv,                 \* rows of the evaluation log file
    submitted,           \* experiment ids whose parameter file was written
    inflight,            \* experiment ids submitted and not yet answered
    resultArgs,          \* keyword arguments given to OptimizerResult(...)
    result,              \* <<r>> when optimize() returned r, else <<>>
    gateway,             \* a UnitySimulator with its caller, its files and
                         \* the external simulator, studied on its own
    tracker,             \* an OptimizationHistory with its log file, studied
                         \* on its own
    parameters,          \* a parameter mapping and a parameter array with
                         \* what the export and the clamp made of them
    objfunc              \* an ObjectiveFunction called directly, with the
                         \* result data its simulator hands back

inputs == <<scenario, popsize, n_params, generations, max_evaluations, seed_arg>>
optv == <<seed, maxiter, opt_eval_count, eval_counter, current_generation,
          termination_flag, wrapper_ret, de>>
objv == <<obj_eval_count, obj_generation, evaluations>>
logv == <<history, csv>>
simv == <<submitted, inflight>>
resv == <<resultArgs, result>>
auxv == <<parameters, objfunc>>
compv == <<gateway, tracker, auxv>>
campv == <<inputs, checkpoint, confirmed, pc, error, optv, objv, logv, simv, resv>>
vars == <<campv, compv>>

\* ------------------------------------------------------------- helpers
\* The parameter and scoring components while they are not under study.
AuxAtRest == parameters = <<>> /\ objfunc = <<>>

start_iteration == 0

\* popsize is a multiplier: one generation holds popsize x n_params members.
PopulationSize == popsize * n_params

\* A generation tag counted from zero.
GenerationOfZeroBased(c) == (c - 1) \div PopulationSize

\* Generation tag of the evaluation with 1-based index c.
GenerationOf(c) == ((c - 1) \div PopulationSize) + 1

\* A budget test that lets one call too many through.
OverBudgetOffByOne(c) == c > max_evaluations + 1

\* The wrapper's budget test for the call with 1-based index c.
OverBudget(c) == c > max_evaluations

\* maxiter as ScipyDEOptimizer.__init__ derives it.
InitMaxiter ==
    IF generations # None THEN generations
    ELSE max_evaluations \div (popsize * n_params)

\* Iteration cap handed to the search library.
scipy_maxiter == maxiter * ScipyMaxiterFactor

\* max_evaluations as main() derives it in normal mode.
MainMaxEvaluations ==
    IF max_evaluations = None THEN popsize * n_params * generations
    ELSE max_evaluations

\* Row that add_evaluation writes for (iteration, generation, objective).
LogRow(iteration, generation, objective) ==
    [iteration |-> start_iteration + iteration,
     generation |-> generation,
     objective |-> objective]

\* Rows of an evaluation log whose objectives are objs, as an earlier
\* campaign with this population size left them.
PriorRows(objs) ==
    [i \in 1..Len(objs) |-> LogRow(i, GenerationOf(i), objs[i])]

RECURSIVE MinObjective(_)
MinObjective(rows) ==
    IF Len(rows) = 1 THEN rows[1].objective
    ELSE Min(rows[1].objective, MinObjective(Tail(rows)))

\* Checkpoint built from a history file (utils/create_checkpoint.py).
CheckpointOf(rows, target) ==
    [eval_counter |-> rows[Len(rows)].iteration,
     best_objective |-> MinObjective(rows),
     max_evaluations |-> target,
     history_csv |-> TRUE]

DEStart ==
    [phase |-> "init", nit |-> 0, pending |-> 0, best |-> Inf,
     success |-> FALSE, converged |-> FALSE, message |-> ""]

\* ---------------------------------------------------------------- Init
InitRest ==
    /\ pc = "start"
    /\ confirmed = FALSE
    /\ error = "none"
    /\ seed = seed_arg
    /\ maxiter = 0
    /\ opt_eval_count = 0
    /\ eval_counter = 0
    /\ current_generation = 0
    /\ termination_flag = FALSE
    /\ wrapper_ret = None
    /\ de = DEStart
    /\ obj_eval_count = 0
    /\ obj_generation = 0
    /\ evaluations = <<>>
    /\ history = <<>>
    /\ submitted = <<>>
    /\ inflight = {}
    /\ resultArgs = <<>>
    /\ result = <<>>

InitFiles ==
    IF scenario = "main_resume"
    THEN \/ checkpoint = <<>> /\ csv = <<>>
         \/ \E n \in 1..MaxPrior : \E objs \in [1..n -> ObjValues] :
                /\ csv = PriorRows(objs)
                /\ \E target \in n..MaxEvals :
                       checkpoint = <<CheckpointOf(PriorRows(objs), target)>>
    ELSE checkpoint = <<>> /\ csv = <<>>

Init ==
    /\ scenario \in {"api", "main_fresh", "main_resume"}
    /\ popsize \in 1..MaxPopsize
    /\ n_params \in 1..MaxParams
    /\ generations \in (IF scenario = "api" THEN {None} ELSE {}) \cup 1..MaxGenerations
    /\ max_evaluations \in (IF scenario = "api" THEN {} ELSE {None}) \cup 0..MaxEvals
    /\ seed_arg \in SeedArgs
    /\ InitFiles
    /\ InitRest
    /\ gateway = <<>>
    /\ tracker = <<>>
    /\ AuxAtRest

\* ----------------------------------------------- run_optimization.main()
\* main() up to the point where it stops.  With --resume and no checkpoint
\* file it reports and returns; a response other than "y" cancels.  After
\* the confirmation it builds the simulator, the history tracker (a new log
\* file, or the checkpoint's log opened for appending, which leaves the file
\* as it is) and the ObjectiveFunction.  In resume mode it then calls
\* obj_func.set_initial_best, which ObjectiveFunction does not define; in
\* normal mode create_optimizer passes resume_eval_counter and
\* resume_generation, which ScipyDEOptimizer.__init__ does not accept.  Both
\* exceptions are raised before the try block and leave main().
main(response) ==
    /\ pc = "start"
    /\ scenario \in {"main_fresh", "main_resume"}
    /\ pc' = "exited"
    /\ IF scenario = "main_resume" /\ checkpoint = <<>>
       THEN UNCHANGED <<max_evaluations, confirmed, error, logv>>
       ELSE /\ confirmed' = (response = "y")
            /\ max_evaluations' = IF scenario = "main_resume"
                                  THEN checkpoint[1].max_evaluations
                                  ELSE MainMaxEvaluations
            /\ IF response # "y"
               THEN UNCHANGED <<error, logv>>
               ELSE /\ history' = <<>>
                    /\ csv' = IF scenario = "main_resume" /\ checkpoint[1].history_csv
                              THEN csv ELSE <<>>
                    /\ error' = IF scenario = "main_resume"
                                THEN "AttributeError" ELSE "TypeError"
    /\ UNCHANGED <<compv, scenario, popsize, n_params, generations, seed_arg,
                   checkpoint, optv, objv, simv, resv>>

\* ------------------------------------------------ direct construction
\* OptimizationHistory(path): a new log file holding the header only.
\* ObjectiveFunction(simulator, history): counters at zero.
\* ScipyDEOptimizer(bounds, obj_func, max_evaluations, seed, popsize,
\* generations): a seed is drawn when none is given; maxiter is derived.
Construct(drawn) ==
    /\ pc = "start"
    /\ scenario = "api"
    /\ history' = <<>>
    /\ csv' = <<>>
    /\ obj_eval_count' = 0
    /\ obj_generation' = 0
    /\ evaluations' = <<>>
    /\ seed' = IF seed_arg = None THEN drawn ELSE seed_arg
    /\ maxiter' = InitMaxiter
    /\ opt_eval_count' = 0
    /\ pc' = "constructed"
    /\ UNCHANGED <<compv, inputs, checkpoint, confirmed, error, eval_counter, current_generation,
                   termination_flag, wrapper_ret, de, simv, resv>>

\* optimize() up to the differential_evolution call: the counters start at
\* zero and the library is about to evaluate its initial population.
optimize_begin ==
    /\ pc = "constructed"
    /\ eval_counter' = 0
    /\ current_generation' = 0
    /\ termination_flag' = FALSE
    /\ de' = [DEStart EXCEPT !.pending = PopulationSize]
    /\ pc' = "running"
    /\ UNCHANGED <<compv, inputs, checkpoint, confirmed, error, seed, maxiter, opt_eval_count,
                   wrapper_ret, objv, logv, simv, resv>>

\* ------------------------------------------------- objective_wrapper
\* One call of objective_wrapper by the library (at most `workers` calls are
\* outstanding).  Over budget it returns the sentinel at once.  Otherwise it
\* sets the generation and calls the ObjectiveFunction, which increments its
\* counter, derives the experiment id and submits the vector to the
\* simulator (parameter file, then trigger); the call then blocks.
objective_wrapper ==
    /\ pc = "running"
    /\ de.pending > 0
    /\ Cardinality(inflight) < workers
    /\ eval_counter' = eval_counter + 1
    /\ opt_eval_count' = eval_counter + 1
    /\ current_generation' = GenerationOf(eval_counter + 1)
    /\ IF OverBudget(eval_counter + 1)
       THEN /\ termination_flag' = TRUE
            /\ wrapper_ret' = Sentinel
            /\ de' = [de EXCEPT !.pending = @ - 1, !.best = Min(@, Sentinel)]
            /\ UNCHANGED <<objv, simv>>
       ELSE /\ obj_generation' = GenerationOf(eval_counter + 1)
            /\ obj_eval_count' = obj_eval_count + 1
            /\ submitted' = Append(submitted, obj_eval_count + 1)
            /\ inflight' = inflight \cup {obj_eval_count + 1}
            /\ de' = [de EXCEPT !.pending = @ - 1]
            /\ UNCHANGED <<termination_flag, wrapper_ret, evaluations>>
    /\ UNCHANGED <<compv, inputs, checkpoint, confirmed, pc, error, seed, maxiter, logv, resv>>

\* The simulator answered experiment id with a readable, complete result:
\* the objective is computed, the record is kept in memory and
\* add_evaluation appends its row to the log; the objective is returned.
EvaluationCompletes(id, objective) ==
    /\ pc = "running"
    /\ id \in inflight
    /\ inflight' = inflight \ {id}
    /\ evaluations' = Append(evaluations,
           [iteration |-> obj_eval_count, objective |-> objective,
            experiment_id |-> id])
    /\ history' = Append(history, LogRow(obj_eval_count, obj_generation, objective))
    /\ csv' = Append(csv, LogRow(obj_eval_count, obj_generation, objective))
    /\ wrapper_ret' = objective
    /\ de' = [de EXCEPT !.best = Min(@, objective)]
    /\ UNCHANGED <<compv, inputs, checkpoint, confirmed, pc, error, seed, maxiter, opt_eval_count,
                   eval_counter, current_generation, termination_flag,
                   obj_eval_count, obj_generation, submitted, resv>>

\* A failing evaluation whose record was written before the simulator
\* answered: the row of the failed evaluation stays in the log.
EvaluationRaisesLogged(id, kind) ==
    /\ pc = "running"
    /\ id \in inflight
    /\ inflight' = inflight \ {id}
    /\ error' = kind
    /\ pc' = "raising"
    /\ history' = Append(history, LogRow(obj_eval_count, obj_generation, None))
    /\ csv' = Append(csv, LogRow(obj_eval_count, obj_generation, None))
    /\ UNCHANGED <<compv, inputs, checkpoint, confirmed, optv, objv, submitted, resv>>

\* run_simulation raised (timeout, crash) or the result could not be loaded
\* or scored: the exception leaves __call__ before anything is recorded, and
\* neither the wrapper nor the library catches it.
EvaluationRaises(id, kind) ==
    /\ pc = "running"
    /\ id \in inflight
    /\ inflight' = inflight \ {id}
    /\ error' = kind
    /\ pc' = "raising"
    /\ UNCHANGED <<compv, inputs, checkpoint, confirmed, optv, objv, logv, submitted, resv>>

\* ------------------------------------- differential_evolution (library)
\* The initial population has been evaluated.  The library starts its first
\* generation unless its iteration cap is zero.
DEInitDone ==
    /\ pc = "running"
    /\ de.phase = "init"
    /\ de.pending = 0
    /\ inflight = {}
    /\ IF scipy_maxiter >= 1
       THEN /\ de' = [de EXCEPT !.phase = "evolve", !.nit = 1,
                                !.pending = PopulationSize]
            /\ pc' = pc
       ELSE /\ de' = [de EXCEPT !.message = "maxiter exceeded"]
            /\ pc' = "search_done"
    /\ UNCHANGED <<compv, inputs, checkpoint, confirmed, error, seed, maxiter, opt_eval_count,
                   eval_counter, current_generation, termination_flag,
                   wrapper_ret, objv, logv, simv, resv>>

\* callback(xk, convergence): asks the library to stop once the evaluation
\* counter has reached max_evaluations.
callback == eval_counter >= max_evaluations

\* A generation's trial population has been evaluated.  The library calls
\* the callback, then tests convergence (converged: the outcome of its
\* tolerance test on the population), then its iteration cap.
DEGenerationDone(converged) ==
    /\ pc = "running"
    /\ de.phase = "evolve"
    /\ de.pending = 0
    /\ inflight = {}
    /\ IF callback
       THEN /\ termination_flag' = TRUE
            /\ de' = [de EXCEPT !.message = "callback requested stop"]
            /\ pc' = "search_done"
       ELSE /\ termination_flag' = termination_flag
            /\ IF converged
               THEN /\ de' = [de EXCEPT !.success = TRUE, !.converged = TRUE,
                                        !.message = "terminated successfully"]
                    /\ pc' = "search_done"
               ELSE IF de.nit >= scipy_maxiter
               THEN /\ de' = [de EXCEPT !.message = "maxiter exceeded"]
                    /\ pc' = "search_done"
               ELSE /\ de' = [de EXCEPT !.nit = @ + 1, !.pending = PopulationSize]
                    /\ pc' = pc
    /\ UNCHANGED <<compv, inputs, checkpoint, confirmed, error, seed, maxiter, opt_eval_count,
                   eval_counter, current_generation, wrapper_ret, objv, logv,
                   simv, resv>>

\* ------------------------------------------------- end of optimize()
\* Keyword arguments of the OptimizerResult(...) call that ends optimize().
ResultKwargs ==
    [success |-> (de.success \/ termination_flag),
     best_params |-> "x",
     best_objective |-> de.best,
     n_evaluations |-> eval_counter,
     message |-> IF termination_flag THEN "Max evaluations reached" ELSE de.message,
     algorithm_name |-> "ScipyDE",
     seed |-> seed]

\* The search has returned; optimize() builds its result.  The dataclass
\* constructor raises TypeError on a keyword that is not one of its fields.
optimize_return ==
    /\ pc = "search_done"
    /\ resultArgs' = <<ResultKwargs>>
    /\ IF DOMAIN ResultKwargs \subseteq OptimizerResultFields
       THEN /\ result' = <<ResultKwargs>>
            /\ pc' = "returned"
            /\ error' = error
       ELSE /\ result' = <<>>
            /\ pc' = "raising"
            /\ error' = "TypeError"
    /\ UNCHANGED <<compv, inputs, checkpoint, confirmed, optv, objv, logv, simv>>

\* A handler that swallows the exception and has the library ask for the
\* failed member again.
ReachCallerRetry ==
    /\ pc = "raising"
    /\ pc' = "running"
    /\ error' = "none"
    /\ de' = [de EXCEPT !.pending = @ + 1]
    /\ UNCHANGED <<compv, inputs, checkpoint, confirmed, seed, maxiter, opt_eval_count,
                   eval_counter, current_generation, termination_flag,
                   wrapper_ret, objv, logv, simv, resv>>

\* An exception raised inside optimize() reaches optimize()'s caller: no
\* handler in between catches it, saves anything or calls the objective
\* function again.
ReachCaller ==
    /\ pc = "raising"
    /\ pc' = "exited"
    /\ UNCHANGED <<compv, inputs, checkpoint, confirmed, error, optv, objv, logv, simv, resv>>

\* ---------------------------------------------------------------- Next
Next ==
    \/ \E response \in {"y", "n"} : main(response)
    \/ \E drawn \in RandSeeds : Construct(drawn)
    \/ optimize_begin
    \/ objective_wrapper
    \/ \E id \in inflight : \E objective \in ObjValues : EvaluationCompletes(id, objective)
    \/ \E id \in inflight : \E kind \in EvalErrors : EvaluationRaises(id, kind)
    \/ DEInitDone
    \/ \E converged \in BOOLEAN : DEGenerationDone(converged)
    \/ optimize_return
    \/ ReachCaller

Spec == Init /\ [][Next]_vars

\* The same campaign with one-member populations and budgets beyond what
\* the library's iteration cap can reach.
InitBudget ==
    /\ scenario \in {"api", "main_fresh", "main_resume"}
    /\ popsize = 1
    /\ n_params = 1
    /\ generations \in (IF scenario = "api" THEN {None} ELSE {}) \cup 1..MaxGenerations
    /\ max_evaluations \in (IF scenario = "api" THEN {} ELSE {None}) \cup LongEvals
    /\ seed_arg \in SeedArgs
    /\ InitFiles
    /\ InitRest
    /\ gateway = <<>>
    /\ tracker = <<>>
    /\ AuxAtRest

SpecBudget == InitBudget /\ [][Next]_vars

\* ------------------------------ optimize() again on the same objects
\* The caller of optimize() has received its exception and calls optimize()
\* once more on the same optimizer: the wrapper's counters start at zero
\* again, while the ObjectiveFunction, its records and the log stay as the
\* earlier call left them.
optimize_again ==
    /\ pc = "exited"
    /\ scenario = "api"
    /\ obj_eval_count < MaxEvals
    /\ eval_counter' = 0
    /\ current_generation' = 0
    /\ termination_flag' = FALSE
    /\ de' = [DEStart EXCEPT !.pending = PopulationSize]
    /\ pc' = "running"
    /\ error' = "none"
    /\ resultArgs' = <<>>
    /\ result' = <<>>
    /\ UNCHANGED <<compv, inputs, checkpoint, confirmed, seed, maxiter, opt_eval_count,
                   wrapper_ret, objv, logv, simv>>

\* Campaigns of one-member populations built directly, whose objects are
\* used for further optimize() calls.
InitReuse ==
    /\ scenario = "api"
    /\ popsize = 1
    /\ n_params \in 1..MaxParams
    /\ generations = None
    /\ max_evaluations \in 1..MaxPrior
    /\ seed_arg \in SeedArgs
    /\ InitFiles
    /\ InitRest
    /\ gateway = <<>>
    /\ tracker = <<>>
    /\ AuxAtRest

NextReuse ==
    \/ \E drawn \in RandSeeds : Construct(drawn)
    \/ optimize_begin
    \/ objective_wrapper
    \/ \E id \in inflight : \E objective \in ObjValues : EvaluationCompletes(id, objective)
    \/ \E id \in inflight : \E kind \in EvalErrors : EvaluationRaises(id, kind)
    \/ DEInitDone
    \/ \E converged \in BOOLEAN : DEGenerationDone(converged)
    \/ optimize_return
    \/ ReachCaller
    \/ optimize_again

SpecReuse == InitReuse /\ [][NextReuse]_vars

\* ======================================== OptimizationHistory on its own
\* The campaign variables while a component is studied on its own.
CampaignAtRest ==
    /\ scenario = "api"
    /\ popsize = 1
    /\ n_params = 1
    /\ generations = None
    /\ max_evaluations = 0
    /\ seed_arg = None
    /\ checkpoint = <<>>
    /\ csv = <<>>
    /\ InitRest

\* Header line add_evaluation's rows are written under (columns modelled).
CsvHeader == <<"iteration", "generation", "objective">>

\* tracker.file is <<>> while the log file does not exist, else <<f>> with
\* f.header the first line and f.rows the lines after it.
InitTracker ==
    /\ CampaignAtRest
    /\ gateway = <<>>
    /\ AuxAtRest
    /\ tracker = [file |-> <<>>, sessions |-> 0, mode |-> "none",
                  start_iteration |-> 0, history |-> <<>>]

\* Python's min(seq, key=objective): the first of the minimal elements.
RECURSIVE PyMinLast(_, _, _)
PyMinLast(seq, k, best) ==
    IF k > Len(seq) THEN best
    ELSE PyMinLast(seq, k + 1,
                   IF seq[k].objective <= best.objective THEN seq[k] ELSE best)

RECURSIVE PyMin(_, _, _)
PyMin(seq, k, best) ==
    IF k > Len(seq) THEN best
    ELSE PyMin(seq, k + 1,
               IF seq[k].objective < best.objective THEN seq[k] ELSE best)

\* OptimizationHistory.get_best over the in-memory list h: <<>> for None.
get_best(h) == IF h = <<>> THEN <<>> ELSE <<PyMin(h, 2, h[1])>>

\* ObjectiveFunction.get_best_evaluation over its list of evaluations.
get_best_evaluation(evs) == IF evs = <<>> THEN <<>> ELSE <<PyMin(evs, 2, evs[1])>>

\* OptimizationHistory(output_path, append, start_iteration): the in-memory
\* list starts empty; the file is kept when append is set and it exists, and
\* is otherwise replaced by a file holding the header only.
OptimizationHistory(append, start) ==
    /\ tracker.sessions < MaxSessions
    /\ tracker' = [tracker EXCEPT
                     !.sessions = @ + 1,
                     !.start_iteration = start,
                     !.history = <<>>,
                     !.mode = IF append /\ tracker.file # <<>>
                              THEN "append" ELSE "new",
                     !.file = IF append /\ tracker.file # <<>>
                              THEN @
                              ELSE <<[header |-> CsvHeader, rows |-> <<>>]>>]
    /\ UNCHANGED <<campv, gateway, auxv>>

\* An add_evaluation that opens the log for writing instead of appending.
add_evaluation_rewrite(iteration, generation, objective) ==
    /\ tracker.sessions > 0
    /\ Len(tracker.file[1].rows) < MaxRows
    /\ LET entry == [iteration |-> tracker.start_iteration + iteration,
                     generation |-> generation,
                     objective |-> objective]
       IN tracker' = [tracker EXCEPT
                        !.history = Append(@, entry),
                        !.file = <<[header |-> CsvHeader, rows |-> <<entry>>]>>]
    /\ UNCHANGED <<campv, gateway, auxv>>

\* add_evaluation(iteration, params, objective, metrics, generation): one
\* entry joins the in-memory list and one row is appended to the file, which
\* is closed before the call returns.
add_evaluation(iteration, generation, objective) ==
    /\ tracker.sessions > 0
    /\ Len(tracker.file[1].rows) < MaxRows
    /\ LET entry == [iteration |-> tracker.start_iteration + iteration,
                     generation |-> generation,
                     objective |-> objective]
       IN tracker' = [tracker EXCEPT
                        !.history = Append(@, entry),
                        !.file = <<[@[1] EXCEPT !.rows = Append(@, entry)]>>]
    /\ UNCHANGED <<campv, gateway, auxv>>

\* The caller numbers a session's evaluations from 1 (ObjectiveFunction's
\* eval_count) and, when it resumes, offsets them by the rows of the log.
NextTracker ==
    \/ \E append \in BOOLEAN :
         \E start \in {0} \cup (IF tracker.file = <<>> THEN {}
                                ELSE {Len(tracker.file[1].rows)}) :
            OptimizationHistory(append, start)
    \/ \E objective \in ObjValues :
            add_evaluation(Len(tracker.history) + 1, 1, objective)

SpecTracker == InitTracker /\ [][NextTracker]_vars

\* ============================================ UnitySimulator on its own
\* gateway.files maps a result path (named by its experiment id) to <<>>
\* when no file is there, else to <<f>>: f.size is the file's size, f.valid
\* whether its content parses as JSON, f.by the submission whose simulation
\* wrote it (0: written before the first submission), f.old whether it was
\* already there when the current run_simulation call began.
\* gateway.runs lists the experiment id of every submission; gateway.active
\* holds the submissions whose simulation may still write its result and
\* gateway.failed those that ended in TimeoutError or RuntimeError.
\* gateway.elapsed is the time since the wait began, counted in polling
\* sleeps (check_interval) and no longer told apart once past the timeout;
\* it and gateway.sizes are locals, emptied when their function is left.
NoFile == <<>>
StaleFile == <<[size |-> 1, valid |-> TRUE, by |-> 0, old |-> TRUE]>>
ResultPaths == 1..MaxCalls

InitGateway ==
    /\ CampaignAtRest
    /\ tracker = <<>>
    /\ AuxAtRest
    /\ \E mode \in BOOLEAN : \E t \in 1..MaxTimeout :
         \E stale \in {NoFile, StaleFile} : \E fs \in {[path \in ResultPaths |-> stale]} :
            gateway = [use_file_trigger |-> mode, timeout |-> t,
                       pc |-> "idle", eval_count |-> 0, experiment_id |-> 0,
                       result_file |-> 0, files |-> fs, trigger |-> FALSE,
                       process |-> "none", runs |-> <<>>, active |-> {},
                       elapsed |-> 0, sizes |-> <<>>, steps |-> <<>>,
                       error |-> "none", accepted |-> <<>>, failed |-> {}]

\* The gateway is inside _wait_for_result.
Waiting ==
    gateway.pc \in {"poll", "probe", "crash_check", "timeout_check", "sleep"}

\* The submission the current call made.
CurrentRun == Len(gateway.runs)

\* The file the gateway polls.
ResultFile == gateway.files[gateway.result_file]

\* A simulation still writing to the polled path may hold the file locked.
Locked == \E r \in gateway.active : gateway.runs[r] = gateway.result_file

\* ObjectiveFunction.__call__ counts the evaluation, names it eval_<count>
\* and calls run_simulation, whose step 1 writes the parameter file.
run_simulation_export ==
    /\ gateway.pc \in {"idle", "returned", "raised"}
    /\ Len(gateway.runs) < MaxCalls
    /\ LET id == gateway.eval_count + 1
       IN gateway' = [gateway EXCEPT
                        !.pc = "exported",
                        !.eval_count = id,
                        !.experiment_id = id,
                        !.error = "none",
                        !.accepted = <<>>,
                        !.sizes = <<>>,
                        !.elapsed = 0,
                        !.steps = <<"parameters">>,
                        !.files[id] = IF @ = NoFile THEN @
                                      ELSE <<[@[1] EXCEPT !.old = TRUE]>>]
    /\ UNCHANGED <<campv, tracker, auxv>>

\* A step 2 that leaves the result file in place.
run_simulation_keep ==
    /\ gateway.pc = "exported"
    /\ gateway' = [gateway EXCEPT
                     !.pc = "cleared",
                     !.result_file = gateway.experiment_id,
                     !.steps = Append(@, "delete")]
    /\ UNCHANGED <<campv, tracker, auxv>>

\* The result path is set from the experiment id; step 2 deletes the file at
\* that path when there is one.
run_simulation_clear ==
    /\ gateway.pc = "exported"
    /\ gateway' = [gateway EXCEPT
                     !.pc = "cleared",
                     !.result_file = gateway.experiment_id,
                     !.files[gateway.experiment_id] = NoFile,
                     !.steps = Append(@, "delete")]
    /\ UNCHANGED <<campv, tracker, auxv>>

\* Step 3: the trigger file is written (no process to manage), or the
\* simulator is launched as a subprocess; _wait_for_result notes start_time.
run_simulation_signal ==
    /\ gateway.pc = "cleared"
    /\ gateway' = [gateway EXCEPT
                     !.pc = "poll",
                     !.trigger = IF gateway.use_file_trigger THEN TRUE ELSE @,
                     !.process = IF gateway.use_file_trigger THEN "none"
                                 ELSE "running",
                     !.runs = Append(@, gateway.experiment_id),
                     !.active = @ \cup {Len(gateway.runs) + 1},
                     !.elapsed = 0,
                     !.steps = Append(@, "signal")]
    /\ UNCHANGED <<campv, tracker, auxv>>

\* A size comparison that accepts any size.
size_unchecked(prev_size, current_size) == prev_size = prev_size

\* _is_file_stable's comparison of two successive sizes.
size_unchanged(prev_size, current_size) == current_size = prev_size

\* An except clause that re-raises without looking at the process.
reraise_only(e) ==
    [gateway EXCEPT !.pc = "raised", !.error = e, !.sizes = <<>>, !.elapsed = 0,
                    !.failed = @ \cup {CurrentRun}]

\* run_simulation's except (TimeoutError, RuntimeError) clause: a process
\* that was launched and is still running is killed and waited for, then the
\* error is raised again.
except_kill_reraise(e) ==
    [gateway EXCEPT
       !.pc = "raised",
       !.error = e,
       !.sizes = <<>>,
       !.elapsed = 0,
       !.failed = @ \cup {CurrentRun},
       !.process = IF @ = "running" THEN "killed" ELSE @,
       !.active = IF gateway.process = "running" THEN @ \ {CurrentRun} ELSE @]

\* Top of the polling loop: result_file.exists(), then _is_file_stable
\* reads the size for the first time.  Reading a locked file raises inside
\* _is_file_stable, which returns False.
wait_for_result_poll ==
    /\ gateway.pc = "poll"
    /\ \E denied \in (IF Locked THEN BOOLEAN ELSE {FALSE}) :
         gateway' = [gateway EXCEPT
                       !.steps = IF @[Len(@)] = "signal"
                                 THEN Append(@, "poll") ELSE @,
                       !.pc = IF ResultFile = NoFile \/ denied
                              THEN "crash_check" ELSE "probe",
                       !.sizes = IF ResultFile = NoFile \/ denied
                                 THEN <<>> ELSE <<ResultFile[1].size>>]
    /\ UNCHANGED <<campv, tracker, auxv>>

\* One pass of _is_file_stable's loop: sleep, read the size again, return
\* False when it differs (or the file cannot be read).
is_file_stable_check ==
    /\ gateway.pc = "probe"
    /\ Len(gateway.sizes) <= stability_checks
    /\ \E denied \in (IF Locked THEN BOOLEAN ELSE {FALSE}) :
         IF /\ ResultFile # NoFile
            /\ ~denied
            /\ size_unchanged(gateway.sizes[Len(gateway.sizes)], ResultFile[1].size)
         THEN gateway' = [gateway EXCEPT !.sizes = Append(@, ResultFile[1].size)]
         ELSE gateway' = [gateway EXCEPT !.pc = "crash_check", !.sizes = <<>>]
    /\ UNCHANGED <<campv, tracker, auxv>>

\* After the size checks _is_file_stable loads the file as JSON: True when
\* it parses, False on a decode error or any other exception.
is_file_stable_parse ==
    /\ gateway.pc = "probe"
    /\ Len(gateway.sizes) = stability_checks + 1
    /\ \E denied \in (IF Locked THEN BOOLEAN ELSE {FALSE}) :
         IF ResultFile # NoFile /\ ~denied /\ ResultFile[1].valid
         THEN gateway' = [gateway EXCEPT !.pc = "ready", !.accepted = ResultFile]
         ELSE gateway' = [gateway EXCEPT !.pc = "crash_check", !.sizes = <<>>]
    /\ UNCHANGED <<campv, tracker, auxv>>

\* No ready result at this poll: a launched process that has exited makes
\* _wait_for_result raise RuntimeError.
wait_for_result_crash_check ==
    /\ gateway.pc = "crash_check"
    /\ gateway' = IF gateway.process \notin {"none", "running"}
                  THEN except_kill_reraise("RuntimeError")
                  ELSE [gateway EXCEPT !.pc = "timeout_check"]
    /\ UNCHANGED <<campv, tracker, auxv>>

\* A timeout test that never raises.
wait_for_result_no_timeout ==
    /\ gateway.pc = "timeout_check"
    /\ gateway' = [gateway EXCEPT !.pc = "sleep"]
    /\ UNCHANGED <<campv, tracker, auxv>>

\* Then the elapsed time is compared with the timeout.
wait_for_result_timeout_check ==
    /\ gateway.pc = "timeout_check"
    /\ gateway' = IF gateway.elapsed > gateway.timeout
                  THEN except_kill_reraise("TimeoutError")
                  ELSE [gateway EXCEPT !.pc = "sleep"]
    /\ UNCHANGED <<campv, tracker, auxv>>

\* time.sleep(check_interval), then the next poll.
wait_for_result_sleep ==
    /\ gateway.pc = "sleep"
    /\ gateway' = [gateway EXCEPT
                     !.pc = "poll",
                     !.elapsed = Min(@ + 1, gateway.timeout + 1)]
    /\ UNCHANGED <<campv, tracker, auxv>>

\* Step 5: a launched process still running is terminated; the path of the
\* result file is returned.
run_simulation_return ==
    /\ gateway.pc = "ready"
    /\ gateway' = [gateway EXCEPT
                     !.pc = "returned",
                     !.sizes = <<>>,
                     !.elapsed = 0,
                     !.process = IF @ = "running" THEN "terminated" ELSE @,
                     !.active = IF gateway.process = "running"
                                THEN @ \ {CurrentRun} ELSE @]
    /\ UNCHANGED <<campv, tracker, auxv>>

\* KeyboardInterrupt delivered while _wait_for_result is blocked.  It is not
\* an Exception, so neither _is_file_stable's handler nor run_simulation's
\* except (TimeoutError, RuntimeError) clause catches it.
KeyboardInterrupt ==
    /\ Waiting
    /\ gateway' = [gateway EXCEPT !.pc = "raised", !.error = "KeyboardInterrupt",
                                  !.sizes = <<>>, !.elapsed = 0]
    /\ UNCHANGED <<campv, tracker, auxv>>

\* ObjectiveFunction.reset() between two calls: the counter returns to 0.
ObjectiveFunction_reset ==
    /\ gateway.pc \in {"returned", "raised"}
    /\ gateway.eval_count > 0
    /\ gateway' = [gateway EXCEPT !.eval_count = 0]
    /\ UNCHANGED <<campv, tracker, auxv>>

\* ---- the external simulator
\* The simulation of submission r writes (more of) its result file; a final
\* write leaves a file that parses and ends the simulation.
SimulatorWrites(r, final) ==
    /\ r \in gateway.active
    /\ LET path == gateway.runs[r]
           f == gateway.files[path]
           grows == f # NoFile /\ f[1].by = r
           size == IF grows THEN f[1].size + 1 ELSE 1
       IN /\ size <= MaxSize
          /\ gateway' = [gateway EXCEPT
                           !.files[path] = <<[size |-> size, valid |-> final,
                                              by |-> r,
                                              old |-> IF grows THEN f[1].old
                                                      ELSE FALSE]>>,
                           !.active = IF final THEN @ \ {r} ELSE @]
    /\ UNCHANGED <<campv, tracker, auxv>>

\* The launched process exits on its own.
SimulatorExits ==
    /\ gateway.process = "running"
    /\ gateway' = [gateway EXCEPT !.process = "exited",
                                  !.active = @ \ {CurrentRun}]
    /\ UNCHANGED <<campv, tracker, auxv>>

NextGateway ==
    \/ run_simulation_export
    \/ run_simulation_clear
    \/ run_simulation_signal
    \/ wait_for_result_poll
    \/ is_file_stable_check
    \/ is_file_stable_parse
    \/ wait_for_result_crash_check
    \/ wait_for_result_timeout_check
    \/ wait_for_result_sleep
    \/ run_simulation_return
    \/ KeyboardInterrupt
    \/ ObjectiveFunction_reset
    \/ \E r \in gateway.active : \E final \in BOOLEAN : SimulatorWrites(r, final)
    \/ SimulatorExits

SpecGateway == InitGateway /\ [][NextGateway]_vars

\* The steps of _wait_for_result's loop.  The gateway is one sequential
\* thread: it takes its next step, and the sleep between two polls returns
\* once the clock has advanced by check_interval.
WaitLoop ==
    \/ wait_for_result_poll
    \/ is_file_stable_check
    \/ is_file_stable_parse
    \/ wait_for_result_crash_check
    \/ wait_for_result_timeout_check
    \/ wait_for_result_sleep

\* The gateway with a running thread and an advancing clock; the simulator,
\* the operator and the caller remain free to act or not.
SpecGatewayLive == InitGateway /\ [][NextGateway]_vars /\ WF_vars(WaitLoop)

\* ================================ parameter export and clamp on their own
\* The 18 named parameters are modelled by the first MaxNames of them, with
\* their (min, max) bounds in hundredths.  parameters.params is the mapping
\* handed to export_to_unity_json: known[n] is the value under name n (None
\* when the name is missing) and extra tells whether the mapping also holds
\* a key that is no parameter name.  parameters.vector is the array handed
\* to validate_and_clamp_params.  parameters.file is <<>> until the export
\* writes the parameter file, then <<m>> with m the mapping written.
PARAMETER_BOUNDS == <<<<15, 35>>, <<30, 80>>, <<80, 180>>, <<300, 700>>>>
PARAMETER_NAMES == 1..MaxNames

\* Values tried for parameter n: just below, on and just above its bounds.
ValuesOf(n) ==
    LET low == PARAMETER_BOUNDS[n][1]
        high == PARAMETER_BOUNDS[n][2]
    IN {low - 1, low, high, high + 1}

AllValues == UNION {ValuesOf(n) : n \in PARAMETER_NAMES}

ParameterMappings ==
    {[known |-> k, extra |-> x] :
        k \in {f \in [PARAMETER_NAMES -> AllValues \cup {None}] :
                 \A n \in PARAMETER_NAMES : f[n] \in ValuesOf(n) \cup {None}},
        x \in BOOLEAN}

ParameterArrays ==
    {v \in [PARAMETER_NAMES -> AllValues] :
        \A n \in PARAMETER_NAMES : v[n] \in ValuesOf(n)}

InitParameters ==
    /\ CampaignAtRest
    /\ gateway = <<>>
    /\ tracker = <<>>
    /\ objfunc = <<>>
    /\ \E p \in ParameterMappings : \E v \in ParameterArrays :
         parameters = [params |-> p, vector |-> v,
                       pc |-> "given", clamp |-> TRUE, validate |-> TRUE,
                       file |-> <<>>, error |-> "none",
                       clamped |-> <<>>, reclamped |-> <<>>]

Max(a, b) == IF a >= b THEN a ELSE b

\* clamp_parameters(params): a new mapping holding, for each parameter name
\* present in params, max(min_val, min(max_val, value)); other keys are
\* not copied.
clamp_parameters(p) ==
    [known |-> [n \in PARAMETER_NAMES |->
                  IF p.known[n] = None THEN None
                  ELSE Max(PARAMETER_BOUNDS[n][1],
                           Min(PARAMETER_BOUNDS[n][2], p.known[n]))],
     extra |-> FALSE]

\* A validation that does not look for missing names.
validate_parameters_present(p, strict) ==
    (IF p.extra THEN {"Unknown parameter"} ELSE {})
    \cup (IF strict /\ \E n \in PARAMETER_NAMES :
                 /\ p.known[n] # None
                 /\ (p.known[n] < PARAMETER_BOUNDS[n][1]
                       \/ p.known[n] > PARAMETER_BOUNDS[n][2])
          THEN {"out of bounds"} ELSE {})

\* validate_parameters(params, strict): the error messages (by kind); the
\* mapping is valid when there is none.  An out-of-bound value is an error
\* only when strict, otherwise a printed warning.
validate_parameters(p, strict) ==
    (IF \E n \in PARAMETER_NAMES : p.known[n] = None
     THEN {"Missing parameters"} ELSE {})
    \cup (IF p.extra THEN {"Unknown parameter"} ELSE {})
    \cup (IF strict /\ \E n \in PARAMETER_NAMES :
                 /\ p.known[n] # None
                 /\ (p.known[n] < PARAMETER_BOUNDS[n][1]
                       \/ p.known[n] > PARAMETER_BOUNDS[n][2])
          THEN {"out of bounds"} ELSE {})

\* export_to_unity_json(params, output_path, experiment_id, clamp, validate):
\* clamps when asked, validates when asked (strictly unless it clamped) and
\* raises ValueError on any error message, then writes the mapping.
export_to_unity_json(clamp, validate) ==
    /\ parameters.pc = "given"
    /\ LET p == IF clamp THEN clamp_parameters(parameters.params)
                ELSE parameters.params
           errors == IF validate THEN validate_parameters(p, ~clamp) ELSE {}
       IN parameters' = [parameters EXCEPT
                           !.clamp = clamp,
                           !.validate = validate,
                           !.pc = IF errors = {} THEN "written" ELSE "raised",
                           !.error = IF errors = {} THEN "none" ELSE "ValueError",
                           !.file = IF errors = {} THEN <<p>> ELSE @]
    /\ UNCHANGED <<campv, gateway, tracker, objfunc>>

\* A clamp of one entry that forgets the upper bound.
ClampEntryLow(value, low, high) == IF value < low THEN low ELSE value

\* The loop body of validate_and_clamp_params for one entry.
ClampEntry(value, low, high) ==
    IF value < low THEN low
    ELSE IF value > high THEN high
    ELSE value

\* validate_and_clamp_params(params): a copy of the array with each entry
\* clamped to its bounds.
validate_and_clamp_params(v) ==
    [i \in DOMAIN v |->
        ClampEntry(v[i], PARAMETER_BOUNDS[i][1], PARAMETER_BOUNDS[i][2])]

\* A caller clamps its array; the function works on a copy, so the caller's
\* array keeps its value.
ClampCall ==
    /\ parameters.clamped = <<>>
    /\ parameters' = [parameters EXCEPT
                        !.clamped = <<validate_and_clamp_params(parameters.vector)>>]
    /\ UNCHANGED <<campv, gateway, tracker, objfunc>>

\* The caller clamps the array it got back.
ClampAgain ==
    /\ parameters.clamped # <<>>
    /\ parameters.reclamped = <<>>
    /\ parameters' = [parameters EXCEPT
                        !.reclamped = <<validate_and_clamp_params(parameters.clamped[1])>>]
    /\ UNCHANGED <<campv, gateway, tracker, objfunc>>

NextParameters ==
    \/ \E clamp \in BOOLEAN : \E validate \in BOOLEAN :
          export_to_unity_json(clamp, validate)
    \/ ClampCall
    \/ ClampAgain

SpecParameters == InitParameters /\ [][NextParameters]_vars

\* ======================================== ObjectiveFunction on its own
\* An ObjectiveFunction with a history tracker, called directly.  A result
\* file's data is modelled by the fields scoring looks at: agentErrors is
\* <<>> when the key is absent, else <<a>> with a the three statistics of
\* the list (all 0 for the empty list); averageError tells whether the
\* top-level average error is present; densityMetrics is <<>> when the key
\* is absent, <<None>> when it is null, else <<d>> with d its densityRMSE.
\* Metrics are integers and weights are in hundredths.
\* objfunc.issued and objfunc.failed record the experiment ids issued and
\* the number of calls that raised since construction or the last reset;
\* objfunc.last_op names the operation that ran last.
WeightsBeforeDensity ==
    [mean_error |-> 50, percentile_95 |-> 30, time_growth |-> 20, density_diff |-> 0]

WEIGHTS ==
    [mean_error |-> 40, percentile_95 |-> 25, time_growth |-> 15, density_diff |-> 20]

AgentLists ==
    {[mean_error |-> 0, percentile_95 |-> 0, time_growth |-> 0],
     [mean_error |-> 2, percentile_95 |-> 3, time_growth |-> 1]}

SimulationResults ==
    {[agentErrors |-> a, averageError |-> e, densityMetrics |-> d] :
        a \in {<<>>} \cup {<<x>> : x \in AgentLists},
        e \in BOOLEAN,
        d \in {<<>>, <<None>>, <<1>>}}

\* Exceptions run_simulation raises.
SimulatorErrors == {"TimeoutError", "RuntimeError"}

InitObjective ==
    /\ CampaignAtRest
    /\ gateway = <<>>
    /\ tracker = <<>>
    /\ parameters = <<>>
    /\ objfunc = [eval_count |-> 0, current_generation |-> 0,
                  evaluations |-> <<>>, history |-> <<>>, log |-> <<>>,
                  pc |-> "idle", experiment_id |-> 0,
                  result_data |-> <<>>, outcome |-> <<>>, error |-> "none",
                  issued |-> <<>>, failed |-> 0, last_op |-> "init"]

\* compute_density_difference(simulation_result)
compute_density_difference(r) ==
    IF r.densityMetrics = <<>> \/ r.densityMetrics = <<None>> THEN 0
    ELSE r.densityMetrics[1]

\* evaluate_objective(simulation_result): <<>> when reading agentErrors
\* raises KeyError, else <<m>> with m the metrics, m.objective the objective.
evaluate_objective(r) ==
    IF r.agentErrors = <<>> THEN <<>>
    ELSE LET mean_error == r.agentErrors[1].mean_error
             percentile_95 == r.agentErrors[1].percentile_95
             time_growth == r.agentErrors[1].time_growth
             density_diff == compute_density_difference(r)
         IN <<[mean_error |-> mean_error,
               percentile_95 |-> percentile_95,
               time_growth |-> time_growth,
               density_diff |-> density_diff,
               objective |-> WEIGHTS.mean_error * mean_error
                             + WEIGHTS.percentile_95 * percentile_95
                             + WEIGHTS.time_growth * time_growth
                             + WEIGHTS.density_diff * density_diff,
               weighted_mean |-> WEIGHTS.mean_error * mean_error,
               weighted_p95 |-> WEIGHTS.percentile_95 * percentile_95,
               weighted_growth |-> WEIGHTS.time_growth * time_growth,
               weighted_density |-> WEIGHTS.density_diff * density_diff]>>

\* A call that takes its experiment id from the counter as it finds it.
call_begin_stale ==
    /\ objfunc.pc = "idle"
    /\ objfunc.eval_count < MaxCalls
    /\ Len(objfunc.log) < MaxRows
    /\ objfunc' = [objfunc EXCEPT
                     !.experiment_id = objfunc.eval_count,
                     !.issued = Append(@, objfunc.eval_count),
                     !.pc = "simulating",
                     !.result_data = <<>>, !.outcome = <<>>, !.error = "none",
                     !.last_op = "call"]
    /\ UNCHANGED <<campv, gateway, tracker, parameters>>

\* __call__ up to run_simulation: the counter is incremented, then the
\* experiment id eval_<counter, zero-padded> is formed (one id per counter
\* value, modelled by the counter value) and handed to the simulator.
call_begin ==
    /\ objfunc.pc = "idle"
    /\ objfunc.eval_count < MaxCalls
    /\ Len(objfunc.log) < MaxRows
    /\ objfunc' = [objfunc EXCEPT
                     !.eval_count = @ + 1,
                     !.experiment_id = objfunc.eval_count + 1,
                     !.issued = Append(@, objfunc.eval_count + 1),
                     !.pc = "simulating",
                     !.result_data = <<>>, !.outcome = <<>>, !.error = "none",
                     !.last_op = "call"]
    /\ UNCHANGED <<campv, gateway, tracker, parameters>>

\* run_simulation raises: the exception leaves __call__.
call_simulator_raises(kind) ==
    /\ objfunc.pc = "simulating"
    /\ objfunc' = [objfunc EXCEPT
                     !.pc = "idle", !.error = kind, !.failed = @ + 1,
                     !.last_op = "raise"]
    /\ UNCHANGED <<campv, gateway, tracker, parameters>>

\* run_simulation returned a result file holding data: it is loaded and
\* scored; a KeyError leaves __call__, otherwise the record joins the
\* evaluations, the tracker adds its row and the objective is returned.
call_scores(data) ==
    /\ objfunc.pc = "simulating"
    /\ LET scored == evaluate_objective(data)
           row == LogRow(objfunc.eval_count, objfunc.current_generation,
                         scored[1].objective)
       IN IF scored = <<>>
          THEN objfunc' = [objfunc EXCEPT
                             !.pc = "idle", !.result_data = <<data>>,
                             !.error = "KeyError", !.failed = @ + 1,
                             !.last_op = "score"]
          ELSE objfunc' = [objfunc EXCEPT
                             !.pc = "idle", !.result_data = <<data>>,
                             !.outcome = scored,
                             !.evaluations = Append(@,
                                 [iteration |-> objfunc.eval_count,
                                  objective |-> scored[1].objective,
                                  experiment_id |-> objfunc.experiment_id]),
                             !.history = Append(@, row),
                             !.log = Append(@, row),
                             !.last_op = "score"]
    /\ UNCHANGED <<campv, gateway, tracker, parameters>>

\* A reset that also starts the tracker and its log file afresh.
reset_everything ==
    /\ objfunc.pc = "idle"
    /\ objfunc' = [objfunc EXCEPT
                     !.eval_count = 0, !.evaluations = <<>>,
                     !.history = <<>>, !.log = <<>>,
                     !.issued = <<>>, !.failed = 0, !.last_op = "reset"]
    /\ UNCHANGED <<campv, gateway, tracker, parameters>>

\* ObjectiveFunction.reset()
reset ==
    /\ objfunc.pc = "idle"
    /\ objfunc' = [objfunc EXCEPT
                     !.eval_count = 0, !.evaluations = <<>>,
                     !.issued = <<>>, !.failed = 0, !.last_op = "reset"]
    /\ UNCHANGED <<campv, gateway, tracker, parameters>>

NextObjective ==
    \/ call_begin
    \/ \E kind \in SimulatorErrors : call_simulator_raises(kind)
    \/ \E data \in SimulationResults : call_scores(data)
    \/ reset

SpecObjective == InitObjective /\ [][NextObjective]_vars

\* ============================================================== claims

\* optimize() has built (or tried to build) its result.
SearchEnded == resultArgs # <<>>

\* C1: when the search ends without an evaluation error and without the
\* convergence criterion having fired, the number of calls delegated to the
\* objective function is exactly max_evaluations.
C1_ExactlyMaxEvaluations ==
    (scenario = "api" /\ pc = "search_done" /\ ~de.converged)
        => obj_eval_count = max_evaluations

\* C2: the number of calls delegated to the objective function never exceeds
\* max_evaluations, and a wrapper call whose index exceeds max_evaluations
\* returns the sentinel and leaves the objective function, its generation,
\* the simulator and the log untouched.
C2_BudgetNeverExceeded ==
    [][scenario = "api" =>
         /\ obj_eval_count' <= max_evaluations'
         /\ Len(submitted') <= max_evaluations'
         /\ (eval_counter' = eval_counter + 1 /\ eval_counter' > max_evaluations)
               => /\ wrapper_ret' = Sentinel
                  /\ UNCHANGED <<obj_eval_count, obj_generation, evaluations,
                                 history, csv, submitted, inflight>>]_vars

C2_Witness ==
    /\ scenario = "api"
    /\ max_evaluations > 0
    /\ obj_eval_count = max_evaluations
    /\ eval_counter > max_evaluations
    /\ wrapper_ret = Sentinel

\* C3: the n_evaluations value optimize() reports equals the number of real
\* objective evaluations performed and never exceeds max_evaluations.
C3_ReportedCountIsRealCount ==
    SearchEnded =>
        /\ resultArgs[1].n_evaluations = obj_eval_count
        /\ resultArgs[1].n_evaluations <= max_evaluations

\* C4: whenever the search ends, optimize() returns an OptimizerResult whose
\* seed field is the optimizer's seed: the caller's seed when one was given,
\* otherwise one drawn at construction from 0..2^31-1, never None.
C4_ResultCarriesSeed ==
    SearchEnded =>
        /\ result # <<>>
        /\ result[1].seed = seed
        /\ seed \in 0..MaxSeed
        /\ (seed_arg # None => seed = seed_arg)

\* C5: a failed evaluation appends no row.  The log and the in-memory
\* evaluation list change only when an evaluation completes, and then by
\* exactly one complete record; once an evaluation has failed they hold one
\* record per completed evaluation and none for the failed one.
C5_FailedEvaluationLeavesLog ==
    [][/\ (csv' # csv \/ history' # history \/ evaluations' # evaluations)
            => /\ error' = "none"
               /\ \E id \in inflight : \E objective \in ObjValues :
                    /\ csv' = Append(csv, LogRow(obj_eval_count, obj_generation, objective))
                    /\ evaluations' = Append(evaluations,
                           [iteration |-> obj_eval_count, objective |-> objective,
                            experiment_id |-> id])
       /\ error' \in EvalErrors
            => /\ Len(csv') = obj_eval_count' - 1
               /\ Len(evaluations') = obj_eval_count' - 1
               /\ \A k \in 1..Len(csv') : csv'[k].objective \in ObjValues]_vars

C5_Witness ==
    /\ error \in EvalErrors
    /\ pc = "exited"
    /\ Len(csv) >= 1

\* C6: after an evaluation has raised, nothing more is submitted to the
\* simulator: the failed vector is not submitted again, the error stays as
\* raised and reaches optimize()'s caller, and no experiment id is ever
\* submitted twice.
C6_NoRetryAfterFailure ==
    [][/\ error \in EvalErrors
            => /\ submitted' = submitted
               /\ inflight' = {}
               /\ obj_eval_count' = obj_eval_count
               /\ error' = error
               /\ pc' = "exited"
       /\ \A i, j \in 1..Len(submitted') :
              i # j => submitted'[i] # submitted'[j]]_vars

C6_Witness ==
    /\ error \in EvalErrors
    /\ pc = "exited"
    /\ Len(submitted) >= 2
    /\ de.pending > 0

\* C7: at most one evaluation is in flight, and every evaluation submitted
\* before the latest one has its row in the log.
C7_OneEvaluationAtATime ==
    /\ Cardinality(inflight) <= 1
    /\ \A n \in 1..Len(submitted) :
          n < Len(submitted)
             => \E k \in 1..Len(csv) : csv[k].iteration = submitted[n]

C7_Witness ==
    /\ Len(submitted) >= 2
    /\ Cardinality(inflight) = 1
    /\ Len(csv) = Len(submitted) - 1

\* C8: when an evaluation has failed and the error has reached the caller,
\* a checkpoint exists whose evaluation counter and best-so-far are those of
\* the log after the last completed evaluation.
C8_CheckpointSavedOnFailure ==
    (scenario = "api" /\ error \in EvalErrors /\ pc = "exited" /\ Len(csv) >= 1)
        => /\ checkpoint # <<>>
           /\ checkpoint[1].eval_counter = Len(csv)
           /\ (Len(csv) > 0 => checkpoint[1].best_objective = MinObjective(csv))

\* A resumed campaign that the operator confirmed has ended.
ResumeEnded ==
    /\ scenario = "main_resume"
    /\ checkpoint # <<>>
    /\ confirmed
    /\ pc = "exited"

\* C9: a campaign resumed from a checkpoint with eval_counter = c and
\* max_evaluations = M performs exactly M - c further real evaluations, and
\* the rows the log held before remain its prefix.
C9_ResumePerformsRemaining ==
    ResumeEnded =>
        /\ obj_eval_count = checkpoint[1].max_evaluations - checkpoint[1].eval_counter
        /\ Len(csv) >= checkpoint[1].eval_counter
        /\ \A k \in 1..checkpoint[1].eval_counter : csv[k].iteration = k

\* C10: after a resume from a checkpoint with eval_counter = c (c below the
\* target), the first newly logged record has iteration c+1 and the
\* generation computed from c+1, and iterations over the whole log are
\* strictly increasing.
C10_ResumeContinuesNumbering ==
    (ResumeEnded /\ checkpoint[1].eval_counter < checkpoint[1].max_evaluations)
        => /\ Len(csv) > checkpoint[1].eval_counter
           /\ csv[checkpoint[1].eval_counter + 1].iteration
                 = checkpoint[1].eval_counter + 1
           /\ csv[checkpoint[1].eval_counter + 1].generation
                 = GenerationOf(checkpoint[1].eval_counter + 1)
           /\ \A k \in 1..(Len(csv) - 1) : csv[k].iteration < csv[k + 1].iteration

StepOrder == <<"parameters", "delete", "signal", "poll">>

C12_StepOrder ==
    /\ Len(gateway.steps) <= Len(StepOrder)
    /\ gateway.steps = SubSeq(StepOrder, 1, Len(gateway.steps))
    /\ Waiting => gateway.steps[Len(gateway.steps)] \in {"signal", "poll"}
    /\ gateway.pc \in {"ready", "returned"} => ~gateway.accepted[1].old

\* The first call returned a result although result files of an earlier
\* session were lying at the result paths when it began.
C12_Witness ==
    /\ gateway.pc = "returned"
    /\ CurrentRun = 1
    /\ \E path \in ResultPaths :
          gateway.files[path] # NoFile /\ gateway.files[path][1].by = 0

\* What C13 says of a timeout: TimeoutError reaches the caller, a process the
\* gateway launched is no longer running, and in file-trigger mode there is
\* no process and the simulation is left alone.
TimeoutOutcome ==
    /\ gateway'.pc = "raised"
    /\ gateway'.error = "TimeoutError"
    /\ gateway'.process # "running"
    /\ gateway.use_file_trigger
          => gateway'.process = "none" /\ gateway'.active = gateway.active

\* C13 as stated: a poll that found no ready result while the elapsed time
\* exceeds the timeout ends in the timeout error.
C13_TimeoutRaisesTimeoutError ==
    [][ ( /\ gateway.pc \in {"crash_check", "timeout_check"}
          /\ gateway.elapsed > gateway.timeout
          /\ gateway'.pc \notin {"crash_check", "timeout_check"}
          /\ gateway'.error # "KeyboardInterrupt" )
        => TimeoutOutcome ]_vars

\* C13 amended: a poll that found no ready result and did not find the
\* launched process exited, while the elapsed time exceeds the timeout, ends
\* in the timeout error; a launched process that has exited makes the poll
\* end in the crash error whatever the elapsed time.
C13_TimeoutUnlessProcessExited ==
    [][ /\ ( /\ gateway.pc = "timeout_check"
             /\ gateway.elapsed > gateway.timeout
             /\ gateway'.pc # "timeout_check"
             /\ gateway'.error # "KeyboardInterrupt" )
           => TimeoutOutcome
        /\ ( /\ gateway.pc = "crash_check"
             /\ gateway.process = "exited"
             /\ gateway'.pc # "crash_check"
             /\ gateway'.error # "KeyboardInterrupt" )
           => gateway'.pc = "raised" /\ gateway'.error = "RuntimeError" ]_vars

\* A timeout reached the caller after the gateway killed the process it had
\* launched.
C13_Witness ==
    /\ gateway.pc = "raised"
    /\ gateway.error = "TimeoutError"
    /\ gateway.process = "killed"

\* The simulation of the current submission left a complete result.
CompleteResult ==
    /\ ResultFile # NoFile
    /\ ResultFile[1].valid
    /\ ResultFile[1].by = CurrentRun

\* C14: the crash error is raised only in subprocess mode, with the launched
\* process exited and no complete result of it at the result path.
C14_CrashOnlyWithoutResult ==
    (gateway.pc = "raised" /\ gateway.error = "RuntimeError")
        => /\ ~gateway.use_file_trigger
           /\ gateway.process = "exited"
           /\ ~CompleteResult

\* C15: after a timeout or crash the next submission polls the path of its
\* own experiment id, no file from before the call is at that path when the
\* simulator is signalled, and the result it accepts was not produced for a
\* failed evaluation.
C15_CleanStateAfterFailure ==
    /\ gateway.pc \notin {"idle", "exported"}
          => gateway.result_file = gateway.experiment_id
    /\ gateway.pc = "cleared"
          => (ResultFile = NoFile \/ ~ResultFile[1].old)
    /\ gateway.pc \in {"ready", "returned"}
          => gateway.accepted[1].by \notin gateway.failed

\* C16: when KeyboardInterrupt reaches the caller in subprocess mode, the
\* process the gateway launched is no longer running.
C16_InterruptTerminatesProcess ==
    (gateway.pc = "raised" /\ gateway.error = "KeyboardInterrupt"
                           /\ ~gateway.use_file_trigger)
        => gateway.process # "running"

\* ------------------------------------------------------------ C17 .. C19
\* Rows of the log file the tracker writes to.
TrackerRows == tracker.file[1].rows

\* C17: get_best() on a tracker opened in append mode over an existing log
\* returns the minimum-objective record over all rows of that log, the rows
\* of the earlier session included.
C17_AppendBestCoversLog ==
    (tracker.mode = "append" /\ TrackerRows # <<>>)
        => get_best(tracker.history) = get_best(TrackerRows)

\* C18: get_best() returns nothing when no record was added, and otherwise
\* the earliest-added record among those whose objective is the minimum of
\* all objectives added; get_best_evaluation() does the same over the
\* ObjectiveFunction's in-memory evaluations.
EarliestMinimum(seq, best) ==
    IF seq = <<>> THEN best = <<>>
    ELSE /\ Len(best) = 1
         /\ \E i \in 1..Len(seq) :
               /\ seq[i] = best[1]
               /\ \A j \in 1..Len(seq) : seq[j].objective >= seq[i].objective
               /\ \A j \in 1..(i - 1) : seq[j].objective > seq[i].objective

C18_BestIsEarliestMinimum ==
    /\ EarliestMinimum(history, get_best(history))
    /\ EarliestMinimum(evaluations, get_best_evaluation(evaluations))

\* Three records are held, the minimum objective occurs twice, and a larger
\* objective was added before it.
C18_Witness ==
    /\ Len(history) >= 3
    /\ history[1].objective > history[2].objective
    /\ history[2].objective = history[3].objective
    /\ evaluations # <<>>

\* C19: an add_evaluation call appends exactly one row to the log and leaves
\* the header and every earlier row as they were, the row being in the file
\* when the call returns; opening a tracker in append mode over an existing
\* log leaves the file unchanged.
C19_AddAppendsOneRow ==
    [][ /\ Len(tracker'.history) = Len(tracker.history) + 1
            => /\ tracker'.file[1].header = tracker.file[1].header
               /\ Len(tracker'.file[1].rows) = Len(TrackerRows) + 1
               /\ SubSeq(tracker'.file[1].rows, 1, Len(TrackerRows)) = TrackerRows
               /\ tracker'.file[1].rows[Len(TrackerRows) + 1]
                      = tracker'.history[Len(tracker'.history)]
        /\ (tracker'.sessions # tracker.sessions /\ tracker'.mode = "append")
            => tracker'.file = tracker.file ]_vars

\* A second session opened in append mode has added a row behind the rows
\* of the first.
C19_Witness ==
    /\ tracker.sessions = 2
    /\ tracker.mode = "append"
    /\ tracker.history # <<>>
    /\ Len(TrackerRows) > Len(tracker.history)

GenerationBoundary ==
    pc = "running" /\ de.phase = "evolve" /\ de.pending = 0 /\ inflight = {}

\* The search goes on past a generation boundary only when the evaluation
\* counter is still below max_evaluations, and it stops at one only on the
\* budget, on convergence or on the library's iteration cap.
StopRuleStep ==
    GenerationBoundary =>
        /\ (pc' = "running" /\ de'.nit # de.nit) => eval_counter < max_evaluations
        /\ pc' = "search_done" =>
              (eval_counter >= max_evaluations \/ de'.converged
                  \/ de.nit >= scipy_maxiter)

C21_StopRule == [][StopRuleStep]_vars

\* Once the search has stopped, no parameter file is written and no call
\* reaches the objective function.
NothingAfterStopStep ==
    (pc \in {"search_done", "returned"} \/ SearchEnded) =>
        /\ submitted' = submitted
        /\ obj_eval_count' = obj_eval_count
        /\ eval_counter' = eval_counter

C21_NothingAfterStop == [][NothingAfterStopStep]_vars

\* The success flag optimize() computes is true when the budget or the
\* convergence criterion stopped the search.
C21_ComputedFlag ==
    (SearchEnded /\ (eval_counter >= max_evaluations \/ de.converged))
        => resultArgs[1].success

\* C21: optimize() stops at the first generation boundary at which the
\* evaluation counter has reached max_evaluations or the convergence
\* criterion holds; in both cases it returns a result whose success flag is
\* true, and after stopping it submits no further evaluation.
C21_StopsAndReturnsSuccess ==
    /\ C21_StopRule
    /\ C21_NothingAfterStop
    /\ [](SearchEnded /\ (eval_counter >= max_evaluations \/ de.converged)
            => result # <<>> /\ result[1].success)

\* ---- C22, C23
InBound(n, value) ==
    /\ value # None
    /\ PARAMETER_BOUNDS[n][1] <= value
    /\ value <= PARAMETER_BOUNDS[n][2]

\* The bound of parameter n nearest to value, or value itself when in bound.
NearestInBound(n, value) ==
    IF value < PARAMETER_BOUNDS[n][1] THEN PARAMETER_BOUNDS[n][1]
    ELSE IF value > PARAMETER_BOUNDS[n][2] THEN PARAMETER_BOUNDS[n][2]
    ELSE value

HasMissing(p) == \E n \in PARAMETER_NAMES : p.known[n] = None

HasOutOfBound(p) ==
    \E n \in PARAMETER_NAMES : p.known[n] # None /\ ~InBound(n, p.known[n])

\* What clamping makes of the values present in p.
PinnedValues(p) ==
    [n \in PARAMETER_NAMES |->
        IF p.known[n] = None THEN None ELSE NearestInBound(n, p.known[n])]

ExportFailed == parameters.error = "ValueError" /\ parameters.file = <<>>

\* C22 as stated: every parameter file written by export_to_unity_json holds
\* all parameters, each within its bound; with clamping enabled out-of-bound
\* values are pinned before writing; with clamping disabled an out-of-bound
\* value makes the export fail and no file is written; a missing parameter
\* makes the export fail in either mode.
C22_EveryFileWithinBounds ==
    parameters.pc # "given" =>
        /\ parameters.file # <<>> =>
              \A n \in PARAMETER_NAMES : InBound(n, parameters.file[1].known[n])
        /\ (parameters.clamp /\ parameters.file # <<>>) =>
              parameters.file[1].known = PinnedValues(parameters.params)
        /\ (~parameters.clamp /\ HasOutOfBound(parameters.params)) => ExportFailed
        /\ HasMissing(parameters.params) => ExportFailed

\* C22 (amended): the above holds for an export with validation enabled.
\* With validation disabled the export never fails and writes the mapping as
\* given, or pinned when clamping is enabled, whatever is missing from it.
C22_FileWithinBoundsWhenValidated ==
    parameters.pc # "given" =>
        /\ (parameters.validate /\ parameters.file # <<>>) =>
              \A n \in PARAMETER_NAMES : InBound(n, parameters.file[1].known[n])
        /\ (parameters.clamp /\ parameters.file # <<>>) =>
              parameters.file[1].known = PinnedValues(parameters.params)
        /\ (parameters.validate /\ ~parameters.clamp
               /\ HasOutOfBound(parameters.params)) => ExportFailed
        /\ (parameters.validate /\ HasMissing(parameters.params)) => ExportFailed
        /\ ~parameters.validate =>
              /\ parameters.error = "none"
              /\ parameters.file # <<>>
              /\ parameters.file[1].known =
                    IF parameters.clamp THEN PinnedValues(parameters.params)
                    ELSE parameters.params.known

\* A validated, clamping export has written a file for a mapping that held
\* an out-of-bound value.
C22_Witness ==
    /\ parameters.pc = "written"
    /\ parameters.clamp
    /\ parameters.validate
    /\ HasOutOfBound(parameters.params)

ClampedAsClaimed ==
    /\ parameters.clamped # <<>> =>
          /\ \A i \in PARAMETER_NAMES :
                parameters.clamped[1][i] = NearestInBound(i, parameters.vector[i])
          /\ (\A i \in PARAMETER_NAMES : InBound(i, parameters.vector[i]))
                => parameters.clamped[1] = parameters.vector
    /\ parameters.reclamped # <<>> => parameters.reclamped = parameters.clamped

InputKept == parameters'.vector = parameters.vector

\* C23: validate_and_clamp_params returns a vector in which every entry
\* inside its bound is unchanged and every entry below or above is set to
\* the nearest bound; a vector within bounds is returned unchanged, applying
\* the function to its own output changes nothing, and the input array is
\* not modified.
C23_ClampIsNearestBoundAndIdempotent ==
    []ClampedAsClaimed /\ [][InputKept]_vars

\* An array with one entry below and one above its bound was clamped twice.
C23_Witness ==
    /\ parameters.reclamped # <<>>
    /\ parameters.vector[1] < PARAMETER_BOUNDS[1][1]
    /\ parameters.vector[MaxNames] > PARAMETER_BOUNDS[MaxNames][2]

\* ---- C24 .. C27
\* C24: the objective is 0.40 rmse + 0.25 p95 + 0.15 time_growth + 0.20
\* density_diff (weights in hundredths, summing to 100), density_diff is 0
\* when the result has no density block or a null one, and the four
\* weighted contributions of the breakdown sum to the objective.
C24_ObjectiveIsWeightedSum ==
    objfunc.outcome # <<>> =>
        LET m == objfunc.outcome[1]
            data == objfunc.result_data[1]
        IN /\ m.mean_error = data.agentErrors[1].mean_error
           /\ m.percentile_95 = data.agentErrors[1].percentile_95
           /\ m.time_growth = data.agentErrors[1].time_growth
           /\ m.objective = 40 * m.mean_error + 25 * m.percentile_95
                              + 15 * m.time_growth + 20 * m.density_diff
           /\ WEIGHTS.mean_error + WEIGHTS.percentile_95 + WEIGHTS.time_growth
                 + WEIGHTS.density_diff = 100
           /\ data.densityMetrics \in {<<>>, <<None>>} => m.density_diff = 0
           /\ data.densityMetrics \notin {<<>>, <<None>>}
                 => m.density_diff = data.densityMetrics[1]
           /\ m.weighted_mean + m.weighted_p95 + m.weighted_growth
                 + m.weighted_density = m.objective

\* A result with agents and a null density block was scored after one with a
\* higher objective.
C24_Witness ==
    /\ objfunc.outcome # <<>>
    /\ objfunc.result_data[1].densityMetrics = <<None>>
    /\ objfunc.outcome[1].mean_error > 0
    /\ Len(objfunc.evaluations) > 1
    /\ objfunc.evaluations[1].objective > objfunc.outcome[1].objective

\* A call has just loaded and scored the data of its result file.
ScoreStep ==
    /\ objfunc.pc = "simulating"
    /\ objfunc'.pc = "idle"
    /\ objfunc'.result_data # <<>>

NothingRecorded ==
    /\ objfunc'.error # "none"
    /\ objfunc'.outcome = <<>>
    /\ objfunc'.log = objfunc.log
    /\ objfunc'.history = objfunc.history
    /\ objfunc'.evaluations = objfunc.evaluations

ScoredNormally ==
    /\ objfunc'.error = "none"
    /\ objfunc'.outcome # <<>>
    /\ Len(objfunc'.log) = Len(objfunc.log) + 1
    /\ objfunc'.log[Len(objfunc'.log)].objective = objfunc'.outcome[1].objective

MissingRequiredFieldStep ==
    ScoreStep =>
        LET data == objfunc'.result_data[1]
        IN /\ (data.agentErrors = <<>> \/ ~data.averageError) => NothingRecorded
           /\ (data.agentErrors # <<>> /\ data.averageError
                  /\ data.densityMetrics = <<>>) => ScoredNormally

\* C25: scoring a result that lacks agentErrors, or that lacks the top-level
\* average-error field, fails with an error, yielding no objective and no
\* log row; a result that lacks only the density block is scored normally.
C25_MissingRequiredFieldFails == [][MissingRequiredFieldStep]_vars

\* The part of C25 about agentErrors and the density block alone.
MissingAgentErrorsStep ==
    ScoreStep =>
        LET data == objfunc'.result_data[1]
        IN /\ data.agentErrors = <<>> => NothingRecorded
           /\ (data.agentErrors # <<>> /\ data.densityMetrics = <<>>)
                 => ScoredNormally

C25_MissingAgentErrorsFails == [][MissingAgentErrorsStep]_vars

Distinct(seq) ==
    \A i, j \in 1..Len(seq) : i # j => seq[i] # seq[j]

CallBeginsStep ==
    (objfunc.pc = "idle" /\ objfunc'.pc = "simulating") =>
        /\ objfunc'.eval_count = objfunc.eval_count + 1
        /\ objfunc'.experiment_id = objfunc'.eval_count
        /\ objfunc'.evaluations = objfunc.evaluations
        /\ objfunc'.log = objfunc.log

CallEndsStep ==
    (objfunc.pc = "simulating" /\ objfunc'.pc = "idle") =>
        objfunc'.eval_count = objfunc.eval_count

CountersAgree ==
    /\ Distinct(objfunc.issued)
    /\ Len(objfunc.issued) = objfunc.eval_count
    /\ objfunc.pc = "idle" =>
          objfunc.eval_count - Len(objfunc.evaluations) = objfunc.failed

\* C26: every call increases the counter by exactly one before anything
\* else happens, whether it later succeeds or fails; its experiment id
\* differs from that of every earlier call since construction or the last
\* reset; and between calls the counter minus the number of in-memory
\* records is the number of failed calls.
C26_CounterCountsEveryCall ==
    []CountersAgree /\ [][CallBeginsStep /\ CallEndsStep]_vars

\* After a successful call, a call failed at scoring.
C26_Witness ==
    /\ objfunc.failed >= 1
    /\ Len(objfunc.evaluations) >= 1
    /\ objfunc.last_op = "score"
    /\ objfunc.error = "KeyError"

ResetStep ==
    objfunc'.last_op = "reset" =>
        /\ objfunc'.eval_count = 0
        /\ objfunc'.evaluations = <<>>
        /\ get_best_evaluation(objfunc'.evaluations) = <<>>
        /\ objfunc'.log = objfunc.log
        /\ objfunc'.history = objfunc.history
        /\ objfunc'.current_generation = objfunc.current_generation

\* C27: reset() sets the counter to 0 and empties the in-memory evaluations
\* (get_best_evaluation() then returns nothing), leaving the durable log
\* file and the tracker's records unchanged.
C27_ResetKeepsLog == [][ResetStep]_vars

\* A reset ran after evaluations had been logged.
C27_Witness ==
    /\ objfunc.last_op = "reset"
    /\ Len(objfunc.log) >= 1
    /\ Len(objfunc.history) >= 1
    /\ objfunc.eval_count = 0

\* ---- C28
\* A wait ends with the result found ready or with an error raised.
WaitEndsStep ==
    (Waiting /\ ~Waiting') =>
        \/ gateway'.pc = "ready"
        \/ /\ gateway'.pc = "raised"
           /\ gateway'.error \in {"RuntimeError", "TimeoutError", "KeyboardInterrupt"}

\* A new poll starts only after a poll that measured an elapsed time within
\* the timeout.
NewPollStep ==
    (gateway.pc = "sleep" /\ gateway'.pc = "poll") =>
        gateway.elapsed <= gateway.timeout

\* C28: provided the clock advances, every wait terminates: it returns when
\* a result is ready, raises the crash error, or raises the timeout error;
\* no new poll is started after the poll at which the elapsed time first
\* exceeds the timeout.
C28_WaitTerminates ==
    /\ Waiting ~> ~Waiting
    /\ [][WaitEndsStep /\ NewPollStep]_vars
    /\ [](gateway.pc = "sleep" => gateway.elapsed <= gateway.timeout)

\* A second wait, in file-trigger mode, ended on the timeout.
C28_Witness ==
    /\ gateway.pc = "raised"
    /\ gateway.error = "TimeoutError"
    /\ gateway.use_file_trigger
    /\ CurrentRun > 1

\* ---- C29
\* A record has just been logged by the evaluation in flight.
LoggedStep ==
    Len(csv') = Len(csv) + 1 =>
        /\ csv'[Len(csv')].iteration = eval_counter
        /\ evaluations'[Len(evaluations')].iteration = eval_counter
        /\ obj_eval_count = eval_counter

\* C29: for every record logged during an optimize() call, the iteration
\* the ObjectiveFunction gives it equals the wrapper's own evaluation index,
\* after any sequence of optimize() calls and failed evaluations on the same
\* ObjectiveFunction.
C29_IterationIsWrapperIndex == [][LoggedStep]_vars

\* ---- C30
LowestObjective(rows) ==
    CHOOSE v \in {rows[i].objective : i \in 1..Len(rows)} :
        \A j \in 1..Len(rows) : v <= rows[j].objective

====
